---- MODULE Spec2Model ----
(***************************************************************************)
(* Hexagonal-grid rendering and pixel-to-cell hit-testing (Render.py).     *)
(*                                                                         *)
(* Arithmetic is exact.  Every coordinate the program computes from an     *)
(* integer radius has the form (a + b*sqrt3)/2 with integers a and b; it   *)
(* is written here as the pair <<a, b>>.  Order and floor are decided with *)
(* integer arithmetic only (3*b*b against a*a), so nothing is rounded.     *)
(***************************************************************************)
EXTENDS Integers, Sequences, FiniteSets, TLC

VARIABLES rows, cols, positions, radius, kind, canvas, colorkey, buffer,
          log, raised, draws, first, out

vars == <<rows, cols, positions, radius, kind, canvas, colorkey, buffer,
          log, raised, draws, first, out>>

\* ------------------------------------------------------------ bounds ----
MaxDim == 3        \* map.rows and map.cols range over 1..MaxDim
MaxR == 4          \* the radius ranges over 1..MaxR
MaxPix == 8        \* clicked pixels range over -MaxPix..MaxPix on each axis
MaxUnits == 2      \* at most MaxUnits entries in map.positions
MaxDraws == 3      \* draw() calls counted since the last outside change

\* ----------------------------------------------- numbers (a + b*sqrt3)/2
Num(a, b) == <<a, b>>
Whole(n) == <<2 * n, 0>>
Add(u, v) == <<u[1] + v[1], u[2] + v[2]>>
Sub(u, v) == <<u[1] - v[1], u[2] - v[2]>>
Neg(u) == <<0 - u[1], 0 - u[2]>>
Times(k, u) == <<k * u[1], k * u[2]>>

\* the sign of a + b*sqrt3: -1, 0 or 1
Sign(u) ==
    LET a == u[1]
        b == u[2]
    IN  IF a = 0 /\ b = 0 THEN 0
        ELSE IF a >= 0 /\ b >= 0 THEN 1
        ELSE IF a <= 0 /\ b <= 0 THEN -1
        ELSE IF a > 0 THEN (IF a * a > 3 * b * b THEN 1 ELSE -1)
        ELSE (IF 3 * b * b > a * a THEN 1 ELSE -1)

Less(u, v) == Sign(Sub(u, v)) < 0
Leq(u, v) == Sign(Sub(u, v)) <= 0
Abs(u) == IF Sign(u) < 0 THEN Neg(u) ELSE u

\* floor(q*sqrt3) for an integer q >= 0: the k with k*k <= 3*q*q < (k+1)*(k+1)
RootOf3(q) ==
    CHOOSE k \in q..(2 * q) : k * k <= 3 * q * q /\ (k + 1) * (k + 1) > 3 * q * q

\* floor(q*sqrt3) for an integer q
FloorSqrt3(q) == IF q >= 0 THEN RootOf3(q) ELSE 0 - RootOf3(0 - q) - 1

\* floor((p + q*sqrt3)/n) for integers p, q and n > 0
FloorQ(p, q, n) == (p + FloorSqrt3(q)) \div n

\* math.floor(u), and int(u) which truncates toward zero
Floor(u) == FloorQ(u[1], u[2], 2)
Trunc(u) == IF Sign(u) >= 0 THEN Floor(u) ELSE 0 - Floor(Neg(u))

\* math.ceil(n / 2.0) and math.floor(n / 2.0) for an integer n
CeilHalf(n) == (n + 1) \div 2
FloorHalf(n) == n \div 2

\* ---------------------------------------------------------- the map ----
None == <<>>

\* Map.valid_cell: false for a column outside [0, cols) or a row outside
\* [0, rows)
valid_cell(cell) ==
    /\ 0 <= cell[2] /\ cell[2] < cols
    /\ 0 <= cell[1] /\ cell[1] < rows

\* ---------------------------------------------------- Render geometry ---
\* Render.width
width ==
    Add(Whole(CeilHalf(cols) * 2 * radius + FloorHalf(cols) * radius), Whole(1))

\* Render.height: ( rows + .5 ) * radius * SQRT3 + 1
height == Add(Num(0, (2 * rows + 1) * radius), Whole(1))

\* a seeded fault: the row shift rounded down instead of up
get_surface_floor(cell) ==
    LET row == cell[1]
        col == cell[2]
        h == Num(0, 2 * radius)
    IN  [left |-> Num(3 * radius * col, 0),
         top |-> Add(Times(row - FloorHalf(col), h),
                     IF col % 2 = 1 THEN Num(0, radius) ELSE Whole(0)),
         width |-> Whole(2 * radius), height |-> h]

\* Render.get_surface: the rectangle computed for a cell
get_surface(cell) ==
    LET row == cell[1]
        col == cell[2]
        w == Whole(2 * radius)
        h == Num(0, 2 * radius)
        top == Add(Times(row - CeilHalf(col), h),
                   IF col % 2 = 1 THEN Num(0, radius) ELSE Whole(0))
        left == Num(3 * radius * col, 0)
    IN  [left |-> left, top |-> top, width |-> w, height |-> h]

\* Render.get_cell, the square grid the click is in: (row, col)
bucket(pt) ==
    <<FloorQ(3 * pt[2][2], pt[2][1], 6 * radius),
      FloorQ(pt[1][1], pt[1][2], 3 * radius)>>

\* Render.get_cell, the click relative to its square: (x, y)
local(pt) ==
    <<Sub(pt[1], Times(bucket(pt)[2], Num(3 * radius, 0))),
      Sub(pt[2], Times(bucket(pt)[1], Num(0, 2 * radius)))>>

\* a seeded fault: the odd-column test for the cell above turned round
boundary_flipped(col, x, y) ==
    LET hh == Num(0, radius)
        hr == Num(radius, 0)
    IN  IF col % 2 = 0
        THEN IF Less(y, hh) /\ Less(x, hr) /\ Less(y, Sub(hh, x))
             THEN "upper_left"
             ELSE IF Less(hh, y) /\ Less(x, hr) /\ Less(Add(hh, x), y)
                  THEN "lower_left"
                  ELSE "centre"
        ELSE IF Less(x, hr) /\ Less(Abs(Sub(y, hh)), Sub(hh, x))
             THEN "left"
             ELSE IF Less(hh, y) THEN "up" ELSE "centre"

\* Render.get_cell, the conditions of the boundary correction
boundary(col, x, y) ==
    LET hh == Num(0, radius)
        hr == Num(radius, 0)
    IN  IF col % 2 = 0
        THEN IF Less(y, hh) /\ Less(x, hr) /\ Less(y, Sub(hh, x))
             THEN "upper_left"
             ELSE IF Less(hh, y) /\ Less(x, hr) /\ Less(Add(hh, x), y)
                  THEN "lower_left"
                  ELSE "centre"
        ELSE IF Less(x, hr) /\ Less(Abs(Sub(y, hh)), Sub(hh, x))
             THEN "left"
             ELSE IF Less(y, hh) THEN "up" ELSE "centre"

\* a seeded fault: the upper-left correction keeps the row
corrected_same_row(branch, row, col) ==
    CASE branch = "upper_left" -> <<row, col - 1>>
      [] branch = "lower_left" -> <<row, col - 1>>
      [] branch = "left" -> <<row - 1, col - 1>>
      [] branch = "up" -> <<row - 1, col>>
      [] OTHER -> <<row, col>>

\* Render.get_cell, the assignments of the boundary correction
corrected(branch, row, col) ==
    CASE branch = "upper_left" -> <<row - 1, col - 1>>
      [] branch = "lower_left" -> <<row, col - 1>>
      [] branch = "left" -> <<row - 1, col - 1>>
      [] branch = "up" -> <<row - 1, col>>
      [] OTHER -> <<row, col>>

\* Render.get_cell up to its last line: the resolved (row, col)
resolve(pt) ==
    LET col == bucket(pt)[2]
        row == bucket(pt)[1] + FloorHalf(col + 1)
        branch == boundary(col, local(pt)[1], local(pt)[2])
    IN  [branch |-> branch, cell |-> corrected(branch, row, col)]

\* a seeded fault: the resolved cell returned without asking the map
get_cell_unfiltered(pt) == resolve(pt).cell

\* Render.get_cell
get_cell(pt) ==
    LET cell == resolve(pt).cell
    IN  IF valid_cell(cell) THEN cell ELSE None

\* the centre of a cell rectangle: (left + r, top + r*sqrt3/2)
center(rect) ==
    <<Add(rect.left, Whole(radius)), Add(rect.top, Num(0, radius))>>

\* ------------------------------------------------- the drawing surface ---
NoColorkey == "None"
magenta == "magenta"
GRID_COLOR == "grid"
Colors == {magenta, "black"}
Units == {"unit"}

NoCanvas == [w |-> -1, h |-> -1]
NoRect == [left |-> 0, top |-> 0, width |-> 0, height |-> 0]

\* pygame.Surface( ( self.width, self.height ) ): a canvas of whole pixels,
\* black and with no colorkey
Surface == [w |-> Trunc(width), h |-> Trunc(height)]
NewBuffer == [bg |-> "black", marks |-> <<>>]

\* pygame.Rect( left, top, width, height ): whole pixels
Rect(r) ==
    [left |-> Trunc(r.left), top |-> Trunc(r.top),
     width |-> Trunc(r.width), height |-> Trunc(r.height)]

\* self.subsurface( rect ) succeeds when the rectangle lies inside the
\* canvas and raises ValueError otherwise
subsurface_ok(rc) ==
    /\ rc.left >= 0
    /\ rc.top >= 0
    /\ rc.left + rc.width <= canvas.w
    /\ rc.top + rc.height <= canvas.h

\* one call made on the canvas
Call(op, color, unit, rect, pts) ==
    [op |-> op, color |-> color, unit |-> unit, rect |-> rect, pts |-> pts]

\* a seeded fault: the fill left out
fill_nothing(buf, color) == buf

\* self.fill( color ): the whole canvas becomes color
fill(buf, color) == [bg |-> color, marks |-> <<>>]

\* Render.draw: the colorkey is set to magenta when none is set, then the
\* canvas is filled with the colorkey
draw(ck, buf) ==
    LET color == IF ck = NoColorkey THEN magenta ELSE ck
        setkey == IF ck = NoColorkey
                  THEN <<Call("set_colorkey", magenta, "", NoRect, <<>>)>>
                  ELSE <<>>
    IN  [colorkey |-> color,
         buffer |-> fill(buf, color),
         log |-> setkey \o <<Call("fill", color, "", NoRect, <<>>)>>]

\* RenderUnits.draw, the loop: the entries of map.positions in iteration
\* order, each painted on the sub-view of its rectangle; the first
\* rectangle that leaves the canvas raises and ends the loop
painted ==
    LET ok(k) == subsurface_ok(Rect(get_surface(positions[k][1])))
        bad == {k \in 1..Len(positions) : ~ok(k)}
        n == IF bad = {} THEN Len(positions)
             ELSE (CHOOSE k \in bad : \A j \in bad : k <= j) - 1
    IN  [k \in 1..n |->
            Call("paint", "", positions[k][2],
                 Rect(get_surface(positions[k][1])), <<>>)]

\* a seeded fault: the hexagon without the half-height offset of odd columns
hexagon_no_offset(row, col) ==
    LET top == Num(0, 2 * row * radius)
        left == Num(3 * col * radius, 0)
        cell == << <<Num(radius, 0), Whole(0)>>,
                   <<Num(3 * radius, 0), Whole(0)>>,
                   <<Whole(2 * radius), Num(0, radius)>>,
                   <<Num(3 * radius, 0), Num(0, 2 * radius)>>,
                   <<Num(radius, 0), Num(0, 2 * radius)>>,
                   <<Whole(0), Num(0, radius)>> >>
    IN  [k \in 1..6 |-> <<Add(cell[k][1], left), Add(cell[k][2], top)>>]

\* RenderGrid.draw, the points of the hexagon of loop index (row, col)
hexagon(row, col) ==
    LET offset == IF col % 2 = 1 THEN Num(0, radius) ELSE Whole(0)
        top == Add(offset, Num(0, 2 * row * radius))
        left == Num(3 * col * radius, 0)
        cell == << <<Num(radius, 0), Whole(0)>>,
                   <<Num(3 * radius, 0), Whole(0)>>,
                   <<Whole(2 * radius), Num(0, radius)>>,
                   <<Num(3 * radius, 0), Num(0, 2 * radius)>>,
                   <<Num(radius, 0), Num(0, 2 * radius)>>,
                   <<Whole(0), Num(0, radius)>> >>
    IN  [k \in 1..6 |-> <<Add(cell[k][1], left), Add(cell[k][2], top)>>]

\* RenderGrid.draw, the loops: columns outside, rows inside
outlines ==
    [k \in 1..(rows * cols) |->
        Call("polygon", GRID_COLOR, "", NoRect,
             hexagon((k - 1) % rows, (k - 1) \div rows))]

\* RenderUnits.draw: the base draw, then the loop; what it leaves behind
RenderUnits_draw ==
    LET base == draw(colorkey, buffer)
    IN  [colorkey |-> base.colorkey,
         buffer |-> [base.buffer EXCEPT !.marks = @ \o painted],
         log |-> base.log \o painted,
         raised |-> IF Len(painted) < Len(positions)
                    THEN "ValueError" ELSE "None"]

\* RenderGrid.draw: the base draw, then the loops; what it leaves behind
RenderGrid_draw ==
    LET base == draw(colorkey, buffer)
    IN  [colorkey |-> base.colorkey,
         buffer |-> [base.buffer EXCEPT !.marks = @ \o outlines],
         log |-> base.log \o outlines,
         raised |-> "None"]

\* -------------------------------------------------------- the renderer ---
Kinds == {"grid", "units"}

\* Render.__init__: the map and the radius are stored and the canvas is
\* created with ( self.width, self.height ); nothing is validated
Constructed(rw, cl, r, k) ==
    /\ rows = rw
    /\ cols = cl
    /\ positions = <<>>
    /\ radius = r
    /\ kind = k
    /\ canvas = Surface
    /\ colorkey = NoColorkey
    /\ buffer = NewBuffer
    /\ log = <<>>
    /\ raised = "None"
    /\ draws = 0
    /\ first = <<>>

\* what the last geometry call was given and what it returned
NoArea == [left |-> <<0, 0>>, top |-> <<0, 0>>,
           width |-> <<0, 0>>, height |-> <<0, 0>>]
NoOut == [op |-> "none", cell |-> <<0, 0>>, rect |-> NoArea,
          pt |-> << <<0, 0>>, <<0, 0>> >>, bucket |-> <<0, 0>>,
          local |-> << <<0, 0>>, <<0, 0>> >>, res |-> <<0, 0>>, branch |-> "",
          result |-> None, error |-> "None"]

\* the cells and the points the calls are tried on
Cells == (-1..(MaxDim + 1)) \X (-1..MaxDim)
Pixels == {<<Whole(i), Whole(j)>> : i \in -MaxPix..MaxPix, j \in -MaxPix..MaxPix}
Lattice == {<<Num(k * radius, 0), Num(0, m * radius)>> :
                k \in -MaxPix..MaxPix, m \in -MaxPix..MaxPix}

renderer == <<rows, cols, positions, radius, kind, canvas>>
surface == <<colorkey, buffer, log, raised, draws, first>>

\* get_surface( cell ): the rectangle, and ValueError when the sub-view of
\* it cannot be taken
GetSurface(c) ==
    /\ out.op = "none"
    /\ out' = [NoOut EXCEPT !.op = "get_surface", !.cell = c,
                            !.rect = get_surface(c),
                            !.error = IF subsurface_ok(Rect(get_surface(c)))
                                      THEN "None" ELSE "ValueError"]
    /\ UNCHANGED <<renderer, surface>>

\* the record of one get_cell( pt ); a radius of 0 divides by zero
Hit(op, c, rect, pt) ==
    IF radius = 0
    THEN [NoOut EXCEPT !.op = op, !.cell = c, !.rect = rect, !.pt = pt,
                       !.error = "ZeroDivisionError"]
    ELSE [NoOut EXCEPT !.op = op, !.cell = c, !.rect = rect, !.pt = pt,
                       !.bucket = bucket(pt), !.local = local(pt),
                       !.res = resolve(pt).cell,
                       !.branch = resolve(pt).branch,
                       !.result = get_cell(pt)]

\* get_cell( ( x, y ) )
GetCell(pt) ==
    /\ out.op = "none"
    /\ out' = Hit("get_cell", <<0, 0>>, NoArea, pt)
    /\ UNCHANGED <<renderer, surface>>

\* get_cell on the centre of the rectangle get_surface computes for c
GetCellOfCenter(c) ==
    /\ out.op = "none"
    /\ out' = Hit("center", c, get_surface(c), center(get_surface(c)))
    /\ UNCHANGED <<renderer, surface>>

\* the caller takes the result of the call
Return ==
    /\ out.op # "none"
    /\ out' = NoOut
    /\ UNCHANGED <<renderer, surface>>

Init ==
    /\ \E rw \in 1..MaxDim, cl \in 1..MaxDim, r \in 1..MaxR :
          Constructed(rw, cl, r, "units")
    /\ out = NoOut

\* one call at a time: a call is made once the last result is taken
Next ==
    \/ out.op = "none" /\ \E c \in Cells : GetSurface(c)
    \/ out.op = "none" /\ \E pt \in Pixels \cup Lattice : GetCell(pt)
    \/ out.op = "none" /\ \E c \in Cells : GetCellOfCenter(c)
    \/ Return

Spec == Init /\ [][Next]_vars

\* ------------------------------------------------------------ drawing ---
\* the cells RenderGrid.draw outlines: loop index (i, col) is the cell
\* (i + ceil(col/2), col)
on_grid(cell) ==
    /\ 0 <= cell[2] /\ cell[2] < cols
    /\ CeilHalf(cell[2]) <= cell[1] /\ cell[1] < CeilHalf(cell[2]) + rows

\* the cells units are placed on: the top cell of every column
PosCells == {<<CeilHalf(c), c>> : c \in 0..(MaxDim - 1)}

\* one draw() call leaves res behind; the first one since the map or the
\* colorkey last changed is remembered
Drawn(res) ==
    /\ draws < MaxDraws
    /\ \E r \in {res} :
          /\ colorkey' = r.colorkey
          /\ buffer' = r.buffer
          /\ log' = r.log
          /\ raised' = r.raised
          /\ first' = IF draws = 0
                      THEN <<[buffer |-> r.buffer, colorkey |-> r.colorkey]>>
                      ELSE first
    /\ draws' = draws + 1
    /\ UNCHANGED <<renderer, out>>

DrawGrid == kind = "grid" /\ Drawn(RenderGrid_draw)

DrawUnits == kind = "units" /\ Drawn(RenderUnits_draw)

\* the caller sets a colorkey of its own on the renderer
SetColorkey(c) ==
    /\ colorkey # c
    /\ colorkey' = c
    /\ draws' = 0
    /\ first' = <<>>
    /\ UNCHANGED <<renderer, buffer, log, raised, out>>

\* the caller places a unit on a cell that the grid outlines and the map
\* accepts: map.positions[ cell ] = unit (followed on the map of a
\* RenderUnits only: RenderGrid never reads map.positions)
PlaceUnit(c, u) ==
    /\ kind = "units"
    /\ on_grid(c)
    /\ valid_cell(c)
    /\ Len(positions) < MaxUnits
    /\ \A k \in 1..Len(positions) : positions[k][1] # c
    /\ positions' = Append(positions, <<c, u>>)
    /\ draws' = 0
    /\ first' = <<>>
    /\ UNCHANGED <<rows, cols, radius, kind, canvas, colorkey, buffer, log,
                   raised, out>>

InitDraw ==
    /\ \E rw \in 1..MaxDim, cl \in 1..MaxDim, r \in 1..MaxR, k \in Kinds :
          Constructed(rw, cl, r, k)
    /\ out = NoOut

NextDraw ==
    \/ DrawGrid
    \/ DrawUnits
    \/ \E c \in Colors : SetColorkey(c)
    \/ \E c \in PosCells, u \in Units : PlaceUnit(c, u)

SpecDraw == InitDraw /\ [][NextDraw]_vars

\* ------------------------------------------------------- construction ---
\* RenderGrid( map, radius ) or RenderUnits( map, radius ) on a map of rw
\* rows and cl columns
Construct(rw, cl, r, k) ==
    /\ rows' = rw
    /\ cols' = cl
    /\ positions' = <<>>
    /\ radius' = r
    /\ kind' = k
    /\ canvas' = Surface'
    /\ colorkey' = NoColorkey
    /\ buffer' = NewBuffer
    /\ log' = <<>>
    /\ raised' = "None"
    /\ draws' = 0
    /\ first' = <<>>
    /\ out' = NoOut

InitNew ==
    /\ rows = 0
    /\ cols = 0
    /\ positions = <<>>
    /\ radius = 0
    /\ kind = "none"
    /\ canvas = NoCanvas
    /\ colorkey = NoColorkey
    /\ buffer = NewBuffer
    /\ log = <<>>
    /\ raised = "None"
    /\ draws = 0
    /\ first = <<>>
    /\ out = NoOut

NextNew ==
    \E rw \in 0..MaxDim, cl \in 0..MaxDim, r \in 0..MaxR, k \in Kinds :
        Construct(rw, cl, r, k)

SpecNew == InitNew /\ [][NextNew]_vars

\* ------------------------------------------------ geometry: the claims ---
Origin == <<Whole(0), Whole(0)>>

\* rect contains the point pt, edges included
Covers(rect, pt) ==
    /\ Leq(rect.left, pt[1])
    /\ Leq(pt[1], Add(rect.left, rect.width))
    /\ Leq(rect.top, pt[2])
    /\ Leq(pt[2], Add(rect.top, rect.height))

\* C1: get_cell on the centre (left + r, top + r*sqrt3/2) of the rectangle
\* get_surface computes for a cell that valid_cell accepts returns that cell
C1_RoundTrip ==
    (out.op = "center" /\ valid_cell(out.cell)) => out.result = out.cell

C1_Witness ==
    /\ out.op = "center"
    /\ valid_cell(out.cell)
    /\ out.cell[2] % 2 = 1
    /\ out.pt = center(get_surface(out.cell))
    /\ out.result = out.cell

\* C2: the rectangle get_surface computes for a cell that valid_cell accepts
\* lies inside the canvas: left >= 0, top >= 0, left + 2r <= width and
\* top + h <= height
C2_InsideCanvas ==
    (out.op = "get_surface" /\ valid_cell(out.cell)) =>
        /\ Leq(Whole(0), out.rect.left)
        /\ Leq(Whole(0), out.rect.top)
        /\ Leq(Add(out.rect.left, out.rect.width), width)
        /\ Leq(Add(out.rect.top, out.rect.height), height)

\* C3: width and height dominate the bottom-right corner of the rectangle of
\* the cell (rows-1, cols-1)
C3_BottomRight ==
    (out.op = "get_surface" /\ out.cell = <<rows - 1, cols - 1>>) =>
        /\ Leq(Add(out.rect.left, out.rect.width), width)
        /\ Leq(Add(out.rect.top, out.rect.height), height)

\* C4: get_cell raises nothing for any pixel; it returns the resolved cell
\* when valid_cell accepts it and None otherwise, so a resolved column
\* outside [0, cols) or row outside [0, rows) gives None and a result other
\* than None is a cell valid_cell accepts
C4_NoneOrValid ==
    (out.op = "get_cell") =>
        /\ out.error = "None"
        /\ out.result = (IF valid_cell(out.res) THEN out.res ELSE None)
        /\ (\/ out.res[2] < 0 \/ out.res[2] >= cols
            \/ out.res[1] < 0 \/ out.res[1] >= rows) => out.result = None
        /\ out.result # None => valid_cell(out.result)

C4_Witness ==
    /\ out.op = "get_cell"
    /\ Sign(out.pt[1]) < 0
    /\ out.res[2] < 0
    /\ out.result = None

\* C5: the pixel (0, 0) falls in bucket row 0, column 0 with offsets 0 and 0,
\* takes the upper-left branch, resolves to (-1, -1), and get_cell gives None
C5_Origin ==
    (out.op = "get_cell" /\ out.pt = Origin) =>
        /\ out.bucket = <<0, 0>>
        /\ Sign(out.local[1]) = 0
        /\ Sign(out.local[2]) = 0
        /\ out.branch = "upper_left"
        /\ out.res = <<-1, -1>>
        /\ out.result = None

C5_Witness ==
    /\ out.op = "get_cell"
    /\ out.pt = Origin
    /\ out.branch = "upper_left"
    /\ out.result = None

\* C10: the rectangle get_surface computes for the cell get_cell resolves
\* (before valid_cell is asked) contains the clicked point
C10_RectCovers ==
    (out.op = "get_cell") => Covers(get_surface(out.res), out.pt)

C10_Witness ==
    /\ out.op = "get_cell"
    /\ out.branch = "left"
    /\ Covers(get_surface(out.res), out.pt)

\* ------------------------------------------------- drawing: the claims ---
\* the bounding box of a list of points
MinOf(S) == CHOOSE u \in S : \A v \in S : Leq(u, v)
MaxOf(S) == CHOOSE u \in S : \A v \in S : Leq(v, u)
Box(pts) ==
    LET xs == {pts[k][1] : k \in 1..Len(pts)}
        ys == {pts[k][2] : k \in 1..Len(pts)}
    IN  [left |-> MinOf(xs), top |-> MinOf(ys),
         width |-> Sub(MaxOf(xs), MinOf(xs)),
         height |-> Sub(MaxOf(ys), MinOf(ys))]

Calls(op) == {k \in 1..Len(log) : log[k].op = op}

\* C6: after any number of draw() calls with the map unchanged, the pixel
\* buffer and the colorkey are those the first draw() left, and the buffer
\* is the colorkey fill with the marks of one draw on it
C6_Idempotent ==
    draws >= 1 =>
        /\ first = <<[buffer |-> buffer, colorkey |-> colorkey]>>
        /\ buffer.bg = colorkey

C6_Witness ==
    /\ kind = "units"
    /\ draws >= 2
    /\ Len(buffer.marks) >= 1
    /\ first = <<[buffer |-> buffer, colorkey |-> colorkey]>>

\* C7: RenderUnits.draw fills the canvas first and then calls unit.paint
\* once for every entry of map.positions, on the sub-view of the rectangle
\* get_surface computes for its position, and paints nothing else
C7_PaintsEveryUnit ==
    (kind = "units" /\ draws >= 1) =>
        /\ raised = "None"
        /\ Calls("fill") # {}
        /\ \A k \in Calls("paint") : \E f \in Calls("fill") : f < k
        /\ \A i \in 1..Len(positions) :
              Cardinality({k \in Calls("paint") :
                  /\ log[k].unit = positions[i][2]
                  /\ log[k].rect = Rect(get_surface(positions[i][1]))}) = 1
        /\ Cardinality(Calls("paint")) = Len(positions)

\* C8: RenderGrid.draw draws rows*cols outlines, one for every loop index
\* (i, col), with bounding box left = 1.5*r*col and top = i*h + (h/2 if col
\* is odd), which is the rectangle get_surface computes for the cell
\* (i + ceil(col/2), col)
C8_OutlinesAreCellRects ==
    (kind = "grid" /\ draws >= 1) =>
        LET boxes == [k \in Calls("polygon") |-> Box(log[k].pts)]
        IN  /\ Cardinality(Calls("polygon")) = rows * cols
            /\ \A i \in 0..(rows - 1), col \in 0..(cols - 1) :
                  LET rect == get_surface(<<i + CeilHalf(col), col>>)
                  IN  /\ Cardinality({k \in Calls("polygon") :
                                         boxes[k] = rect}) = 1
                      /\ rect.left = Num(3 * radius * col, 0)
                      /\ rect.top = Num(0, 2 * i * radius
                                        + (IF col % 2 = 1 THEN radius ELSE 0))

C8_Witness ==
    /\ kind = "grid"
    /\ draws >= 1
    /\ rows >= 2
    /\ cols >= 2
    /\ Cardinality(Calls("polygon")) = rows * cols

\* -------------------------------------------- construction: the claims ---
\* C9: a renderer constructed with radius <= 0, or on a map with rows <= 0
\* or cols <= 0, is refused and gets no canvas
C9_RejectsDegenerate ==
    canvas # NoCanvas => (radius > 0 /\ rows > 0 /\ cols > 0)

====
